---- MODULE Spec2Model ----
(***************************************************************************)
(* Adaptive streaming upload pipeline of stream/constant_upload_test.py:   *)
(* one producer (the main thread), K uploader workers sharing a bounded    *)
(* frame queue, and a resource monitor, coordinated by one stop event.     *)
(***************************************************************************)
EXTENDS Integers, Sequences, FiniteSets, TLC

(* ---- configuration of a run and bounds of the model -------------------- *)
K == 2              \* --concurrency: number of uploader workers
QueueSize == 1      \* --queue-size: capacity of frame_queue
MaxFrames == 2      \* frames the encoder delivers in a run
MaxSize == 1        \* encoded frame sizes are 1..MaxSize bytes
MaxRetries == 1     \* --retries is drawn from 0..MaxRetries
MaxMb == 1          \* --max-mb, in the model's byte unit
MinFps == 1         \* --min-fps (its default)
MaxFps == 2         \* --max-fps
MaxInitFps == 3     \* --init-fps is drawn from 1..MaxInitFps
MaxDrainRetries == 4    \* --retries is drawn from 0..MaxDrainRetries in DrainSpec
MaxRateQueue == 10      \* --queue-size is drawn from 1..MaxRateQueue in RateSpec
MaxRateFps == 10        \* fps is drawn from 1..MaxRateFps in RateSpec
MaxRateMin == 2         \* --min-fps is drawn from 1..MaxRateMin in RateSpec
MaxRateMax == 30        \* --max-fps is drawn from 1..MaxRateMax in RateSpec
MaxFifoQueue == 3       \* --queue-size of FifoSpec; 0..MaxFifoQueue frames wait in the queue
MaxOverQueue == 2       \* --queue-size of OverSpec; 0..MaxOverQueue frames wait in the queue
MaxOverLogged == 1      \* 0..MaxOverLogged results are in the log at the start of OverSpec
MaxLogLen == 3          \* the final log has 0..MaxLogLen results in AggSpec
MaxLogSize == 3         \* a result's size_bytes is drawn from 1..MaxLogSize in AggSpec

Workers == 1..K
NoFrame == [id |-> 0, size |-> 0]
NoResult == [id |-> 0, size_bytes |-> 0, retries |-> 0, status |-> "none"]
NoSummary == [frames_total |-> -1, bytes_total |-> -1, latency |-> "unset"]

VARIABLES
    retries,        \* args.retries
    queue_size,     \* args.queue_size
    min_fps,        \* args.min_fps
    max_fps,        \* args.max_fps
    fps,            \* fps (main)
    stop_evt,       \* threading.Event: is it set
    frame_queue,    \* Queue(maxsize=queue_size): sequence of frames, head first
    rows,           \* the result log
    sent_bytes,     \* shared cumulative byte counter
    timeUp,         \* (time.time() - start_time) > args.max_seconds
    encoded,        \* number of frames encoded so far (frame ids are 1..encoded)
    data,           \* the producer's current encoded frame
    pc,             \* position of the main thread
    wpc,            \* position of each worker
    cur,            \* frame each worker holds
    attempt,        \* upload_one_bytes: attempt
    calls,          \* upload_one_bytes: calls of blob.upload_from_file made
    sleeps,         \* upload_one_bytes: backoff sleeps taken, in order
    r,              \* result returned by upload_one_bytes to the worker
    loaded,         \* value of sent_bytes a worker read for its +=
    added,          \* sum of the amounts the workers have added to sent_bytes
    mpc,            \* position of the monitor thread
    samplesAfterStop,   \* samples written after stop_evt was set
    sampleWhileRunning, \* some such sample was written before all workers ended
    accepted,       \* ids of the frames put_nowait accepted, in order
    taken,          \* ids of the frames get returned, in order
    stopSets,       \* number of calls of stop_evt.set()
    rowsAtStop,     \* len(rows) when stop_evt.set() ran (0 before)
    exitCause,      \* which break left the producer loop
    summary         \* the session summary

vars == <<retries, queue_size, min_fps, max_fps, fps, stop_evt, frame_queue, rows, sent_bytes, timeUp,
          encoded, data, pc, wpc, cur, attempt, calls, sleeps, r, loaded,
          added, mpc, samplesAfterStop, sampleWhileRunning, accepted, taken,
          stopSets, rowsAtStop, exitCause, summary>>

cfgVars == <<queue_size, min_fps, max_fps>>
prodVars == <<fps, encoded, data, pc, accepted, stopSets, rowsAtStop, exitCause, summary>>
workVars == <<wpc, cur, attempt, calls, sleeps, r, loaded, added, taken>>
monVars == <<mpc, samplesAfterStop, sampleWhileRunning>>

Init ==
    /\ retries \in 0..MaxRetries
    /\ queue_size = QueueSize
    /\ min_fps = MinFps
    /\ max_fps = MaxFps
    /\ fps \in 1..MaxInitFps
    /\ stop_evt = FALSE
    /\ frame_queue = <<>>
    /\ rows = <<>>
    /\ sent_bytes = 0
    /\ timeUp = FALSE
    /\ encoded = 0
    /\ data = NoFrame
    /\ pc = "read"
    /\ wpc = [w \in Workers |-> "check_stop"]
    /\ cur = [w \in Workers |-> NoFrame]
    /\ attempt = [w \in Workers |-> 0]
    /\ calls = [w \in Workers |-> 0]
    /\ sleeps = [w \in Workers |-> <<>>]
    /\ r = [w \in Workers |-> NoResult]
    /\ loaded = [w \in Workers |-> 0]
    /\ added = 0
    /\ mpc = "check"
    /\ samplesAfterStop = 0
    /\ sampleWhileRunning = FALSE
    /\ accepted = <<>>
    /\ taken = <<>>
    /\ stopSets = 0
    /\ rowsAtStop = 0
    /\ exitCause = "none"
    /\ summary = NoSummary

(* ---- pure helpers ------------------------------------------------------ *)
Min(a, b) == IF a < b THEN a ELSE b

RECURSIVE Pow2(_)
Pow2(n) == IF n = 0 THEN 1 ELSE 2 * Pow2(n - 1)

\* the backoff without its cap
BackoffUncapped(a) == Pow2(a)

\* time.sleep(min(2 ** attempt, 10))
Backoff(a) == Min(Pow2(a), 10)

RECURSIVE SumAll(_)
\* a sum of size_bytes over all rows, whatever their status
SumAll(s) ==
    IF s = <<>> THEN 0 ELSE Head(s).size_bytes + SumAll(Tail(s))

RECURSIVE SumOk(_)
\* sizes.sum() over the rows with status "ok"
SumOk(s) ==
    IF s = <<>> THEN 0
    ELSE (IF Head(s).status = "ok" THEN Head(s).size_bytes ELSE 0) + SumOk(Tail(s))

CountOk(s) == Cardinality({i \in 1..Len(s) : s[i].status = "ok"})

\* an adjustment whose thresholds include 80% and 20% themselves
RateStepInclusive(qsize, f) ==
    IF 10 * qsize >= 8 * queue_size /\ f > min_fps THEN f - 1
    ELSE IF 10 * qsize <= 2 * queue_size /\ f < max_fps THEN f + 1
    ELSE f

\* One adjustment of fps from the queue occupancy. The thresholds
\* queue_size * 0.8 and queue_size * 0.2 are compared in tenths; for the
\* capacities of the model the float products order the same way against
\* an integer qsize.
RateStep(qsize, f) ==
    IF 10 * qsize > 8 * queue_size /\ f > min_fps THEN f - 1
    ELSE IF 10 * qsize < 2 * queue_size /\ f < max_fps THEN f + 1
    ELSE f

\* put_nowait without the capacity test
PutBlind(q, d) == Append(q, d)

\* a put that makes room on a full queue by evicting the oldest frame
PutDropOldest(q, d) ==
    IF Len(q) < queue_size THEN Append(q, d) ELSE Append(Tail(q), d)

\* frame_queue.put_nowait(data): the queue afterwards (Full leaves it as it is)
PutNowait(q, d) == IF Len(q) < queue_size THEN Append(q, d) ELSE q

(* ---- the main thread: producer loop, shutdown, aggregation ------------- *)
\* ret, frame = cap.read(); a failed capture leaves the loop
ProdRead ==
    /\ pc = "read"
    /\ \/ pc' = "encode" /\ UNCHANGED exitCause
       \/ pc' = "finally" /\ exitCause' = "capture"
    /\ UNCHANGED cfgVars
    /\ UNCHANGED <<retries, fps, stop_evt, frame_queue, rows, sent_bytes, timeUp,
                   encoded, data, accepted, stopSets, rowsAtStop, summary>>
    /\ UNCHANGED workVars /\ UNCHANGED monVars

\* ok, buf = cv2.imencode(...); a failed encode continues with the next cycle
ProdEncode ==
    /\ pc = "encode"
    /\ \/ /\ encoded < MaxFrames
          /\ \E s \in 1..MaxSize : data' = [id |-> encoded + 1, size |-> s]
          /\ encoded' = encoded + 1
          /\ pc' = "put"
       \/ /\ pc' = "read"
          /\ UNCHANGED <<encoded, data>>
    /\ UNCHANGED cfgVars
    /\ UNCHANGED <<retries, fps, stop_evt, frame_queue, rows, sent_bytes, timeUp,
                   accepted, stopSets, rowsAtStop, exitCause, summary>>
    /\ UNCHANGED workVars /\ UNCHANGED monVars

\* a put that enqueues the frame although put_nowait raised Full
ProdPutKeep ==
    /\ pc = "put"
    /\ frame_queue' = Append(frame_queue, data)
    /\ accepted' = IF Len(frame_queue) < queue_size THEN Append(accepted, data.id)
                   ELSE accepted
    /\ pc' = "adjust"
    /\ UNCHANGED cfgVars
    /\ UNCHANGED <<retries, fps, stop_evt, rows, sent_bytes, timeUp, encoded,
                   data, stopSets, rowsAtStop, exitCause, summary>>
    /\ UNCHANGED workVars /\ UNCHANGED monVars

\* try: frame_queue.put_nowait(data) except Full: drop the frame
ProdPut ==
    /\ pc = "put"
    /\ frame_queue' = PutNowait(frame_queue, data)
    /\ accepted' = IF Len(frame_queue) < queue_size THEN Append(accepted, data.id)
                   ELSE accepted
    /\ pc' = "adjust"
    /\ UNCHANGED cfgVars
    /\ UNCHANGED <<retries, fps, stop_evt, rows, sent_bytes, timeUp, encoded,
                   data, stopSets, rowsAtStop, exitCause, summary>>
    /\ UNCHANGED workVars /\ UNCHANGED monVars

\* qsize = frame_queue.qsize(); adjust fps
ProdAdjust ==
    /\ pc = "adjust"
    /\ fps' = RateStep(Len(frame_queue), fps)
    /\ pc' = "stop_check"
    /\ UNCHANGED cfgVars
    /\ UNCHANGED <<retries, stop_evt, frame_queue, rows, sent_bytes, timeUp,
                   encoded, data, accepted, stopSets, rowsAtStop, exitCause, summary>>
    /\ UNCHANGED workVars /\ UNCHANGED monVars

\* the stop conditions, then the pacing sleep
StopCriterion == timeUp \/ sent_bytes > MaxMb

ProdStopCheck ==
    /\ pc = "stop_check"
    /\ pc' = IF StopCriterion THEN "finally" ELSE "read"
    /\ exitCause' = IF timeUp THEN "time"
                    ELSE IF sent_bytes > MaxMb THEN "size" ELSE exitCause
    /\ data' = NoFrame
    /\ UNCHANGED cfgVars
    /\ UNCHANGED <<retries, fps, stop_evt, frame_queue, rows, sent_bytes, timeUp,
                   encoded, accepted, stopSets, rowsAtStop, summary>>
    /\ UNCHANGED workVars /\ UNCHANGED monVars

\* a finally block that leaves stop_evt as it is
ProdFinallyNoSet ==
    /\ pc = "finally"
    /\ pc' = "join_mon"
    /\ UNCHANGED cfgVars
    /\ UNCHANGED <<retries, fps, stop_evt, frame_queue, rows, sent_bytes, timeUp,
                   encoded, data, accepted, stopSets, rowsAtStop, exitCause, summary>>
    /\ UNCHANGED workVars /\ UNCHANGED monVars

\* finally: cap.release(); stop_evt.set()
ProdFinally ==
    /\ pc = "finally"
    /\ stop_evt' = TRUE
    /\ stopSets' = stopSets + 1
    /\ rowsAtStop' = Len(rows)
    /\ pc' = "join_mon"
    /\ UNCHANGED cfgVars
    /\ UNCHANGED <<retries, fps, frame_queue, rows, sent_bytes, timeUp, encoded,
                   data, accepted, exitCause, summary>>
    /\ UNCHANGED workVars /\ UNCHANGED monVars

\* mon_thr.join(timeout=2): returns when the monitor ended or after 2 s
MainJoinMon ==
    /\ pc = "join_mon"
    /\ pc' = "join_workers"
    /\ UNCHANGED cfgVars
    /\ UNCHANGED <<retries, fps, stop_evt, frame_queue, rows, sent_bytes, timeUp,
                   encoded, data, accepted, stopSets, rowsAtStop, exitCause, summary>>
    /\ UNCHANGED workVars /\ UNCHANGED monVars

\* leaving "with cf.ThreadPoolExecutor(...)": shutdown(wait=True)
WorkersJoined == \A w \in Workers : wpc[w] = "done"

\* leaving the with block without waiting for the workers
MainJoinNoWait ==
    /\ pc = "join_workers"
    /\ pc' = "aggregate"
    /\ UNCHANGED cfgVars
    /\ UNCHANGED <<retries, fps, stop_evt, frame_queue, rows, sent_bytes, timeUp,
                   encoded, data, accepted, stopSets, rowsAtStop, exitCause, summary>>
    /\ UNCHANGED workVars /\ UNCHANGED monVars

MainJoinWorkers ==
    /\ pc = "join_workers"
    /\ WorkersJoined
    /\ pc' = "aggregate"
    /\ UNCHANGED cfgVars
    /\ UNCHANGED <<retries, fps, stop_evt, frame_queue, rows, sent_bytes, timeUp,
                   encoded, data, accepted, stopSets, rowsAtStop, exitCause, summary>>
    /\ UNCHANGED workVars /\ UNCHANGED monVars

\* the summary over rows
Summarize(s) ==
    [frames_total |-> Len(s),
     bytes_total |-> SumOk(s),
     latency |-> IF CountOk(s) > 0 THEN "value" ELSE "None"]

MainAggregate ==
    /\ pc = "aggregate"
    /\ summary' = Summarize(rows)
    /\ pc' = "done"
    /\ UNCHANGED cfgVars
    /\ UNCHANGED <<retries, fps, stop_evt, frame_queue, rows, sent_bytes, timeUp,
                   encoded, data, accepted, stopSets, rowsAtStop, exitCause>>
    /\ UNCHANGED workVars /\ UNCHANGED monVars

\* the wall clock passes max_seconds (the clock is read by the producer loop only)
InLoop == pc \in {"read", "encode", "put", "adjust", "stop_check"}

Tick ==
    /\ ~timeUp
    /\ InLoop
    /\ timeUp' = TRUE
    /\ UNCHANGED cfgVars
    /\ UNCHANGED <<retries, fps, stop_evt, frame_queue, rows, sent_bytes>>
    /\ UNCHANGED prodVars /\ UNCHANGED workVars /\ UNCHANGED monVars

(* ---- uploader_worker ---------------------------------------------------- *)
\* while not stop_evt.is_set() ...
WCheckStop(w) ==
    /\ wpc[w] = "check_stop"
    /\ wpc' = [wpc EXCEPT ![w] = IF stop_evt THEN "check_empty" ELSE "get"]
    /\ UNCHANGED cfgVars
    /\ UNCHANGED <<retries, stop_evt, frame_queue, rows, sent_bytes, timeUp>>
    /\ UNCHANGED <<cur, attempt, calls, sleeps, r, loaded, added, taken>>
    /\ UNCHANGED prodVars /\ UNCHANGED monVars

\* a worker that stops as soon as it sees the event, whatever the queue holds
WCheckEmptyAbrupt(w) ==
    /\ wpc[w] = "check_empty"
    /\ wpc' = [wpc EXCEPT ![w] = "done"]
    /\ UNCHANGED cfgVars
    /\ UNCHANGED <<retries, stop_evt, frame_queue, rows, sent_bytes, timeUp>>
    /\ UNCHANGED <<cur, attempt, calls, sleeps, r, loaded, added, taken>>
    /\ UNCHANGED prodVars /\ UNCHANGED monVars

\* ... or not frame_queue.empty(): the loop ends when both fail
WCheckEmpty(w) ==
    /\ wpc[w] = "check_empty"
    /\ wpc' = [wpc EXCEPT ![w] = IF frame_queue = <<>> THEN "done" ELSE "get"]
    /\ UNCHANGED cfgVars
    /\ UNCHANGED <<retries, stop_evt, frame_queue, rows, sent_bytes, timeUp>>
    /\ UNCHANGED <<cur, attempt, calls, sleeps, r, loaded, added, taken>>
    /\ UNCHANGED prodVars /\ UNCHANGED monVars

\* a get that hands out the newest frame of the queue
WGetNewest(w) ==
    /\ wpc[w] = "get"
    /\ IF frame_queue # <<>>
       THEN /\ cur' = [cur EXCEPT ![w] = frame_queue[Len(frame_queue)]]
            /\ frame_queue' = SubSeq(frame_queue, 1, Len(frame_queue) - 1)
            /\ taken' = Append(taken, frame_queue[Len(frame_queue)].id)
            /\ wpc' = [wpc EXCEPT ![w] = "upload"]
       ELSE /\ wpc' = [wpc EXCEPT ![w] = "check_stop"]
            /\ UNCHANGED <<cur, frame_queue, taken>>
    /\ UNCHANGED cfgVars
    /\ UNCHANGED <<retries, stop_evt, rows, sent_bytes, timeUp>>
    /\ UNCHANGED <<attempt, calls, sleeps, r, loaded, added>>
    /\ UNCHANGED prodVars /\ UNCHANGED monVars

\* data = frame_queue.get(timeout=0.5); Empty after the timeout: continue
WGet(w) ==
    /\ wpc[w] = "get"
    /\ IF frame_queue # <<>>
       THEN /\ cur' = [cur EXCEPT ![w] = Head(frame_queue)]
            /\ frame_queue' = Tail(frame_queue)
            /\ taken' = Append(taken, Head(frame_queue).id)
            /\ wpc' = [wpc EXCEPT ![w] = "upload"]
       ELSE /\ wpc' = [wpc EXCEPT ![w] = "check_stop"]
            /\ UNCHANGED <<cur, frame_queue, taken>>
    /\ UNCHANGED cfgVars
    /\ UNCHANGED <<retries, stop_evt, rows, sent_bytes, timeUp>>
    /\ UNCHANGED <<attempt, calls, sleeps, r, loaded, added>>
    /\ UNCHANGED prodVars /\ UNCHANGED monVars

\* upload_one_bytes: "if attempt > retries" after a failed call
Exhausted(a, n) == a > n

\* upload_one_bytes: the record returned
Result(d, a, st) == [id |-> d.id, size_bytes |-> d.size, retries |-> a, status |-> st]

\* upload_one_bytes: one pass of the loop "while True: try ... except ..."
WAttempt(w) ==
    /\ wpc[w] = "upload"
    /\ calls' = [calls EXCEPT ![w] = @ + 1]
    /\ \/ /\ r' = [r EXCEPT ![w] = Result(cur[w], attempt[w], "ok")]
          /\ wpc' = [wpc EXCEPT ![w] = "append"]
          /\ UNCHANGED <<attempt, sleeps>>
       \/ /\ attempt' = [attempt EXCEPT ![w] = @ + 1]
          /\ IF Exhausted(attempt'[w], retries)
             THEN /\ r' = [r EXCEPT ![w] = Result(cur[w], attempt'[w], "fail")]
                  /\ wpc' = [wpc EXCEPT ![w] = "append"]
                  /\ UNCHANGED sleeps
             ELSE /\ sleeps' = [sleeps EXCEPT ![w] = Append(@, Backoff(attempt'[w]))]
                  /\ UNCHANGED <<r, wpc>>
    /\ UNCHANGED cfgVars
    /\ UNCHANGED <<retries, stop_evt, frame_queue, rows, sent_bytes, timeUp>>
    /\ UNCHANGED <<cur, loaded, added, taken>>
    /\ UNCHANGED prodVars /\ UNCHANGED monVars

\* a worker that logs successful uploads only
WAppendOkOnly(w) ==
    /\ wpc[w] = "append"
    /\ rows' = IF r[w].status = "ok" THEN Append(rows, r[w]) ELSE rows
    /\ wpc' = [wpc EXCEPT ![w] = "load_sent"]
    /\ UNCHANGED cfgVars
    /\ UNCHANGED <<retries, stop_evt, frame_queue, sent_bytes, timeUp>>
    /\ UNCHANGED <<cur, attempt, calls, sleeps, r, loaded, added, taken>>
    /\ UNCHANGED prodVars /\ UNCHANGED monVars

\* an append that writes the result twice
WAppendTwice(w) ==
    /\ wpc[w] = "append"
    /\ rows' = rows \o <<r[w], r[w]>>
    /\ wpc' = [wpc EXCEPT ![w] = "load_sent"]
    /\ UNCHANGED cfgVars
    /\ UNCHANGED <<retries, stop_evt, frame_queue, sent_bytes, timeUp>>
    /\ UNCHANGED <<cur, attempt, calls, sleeps, r, loaded, added, taken>>
    /\ UNCHANGED prodVars /\ UNCHANGED monVars

\* rows.append(r)
WAppend(w) ==
    /\ wpc[w] = "append"
    /\ rows' = Append(rows, r[w])
    /\ wpc' = [wpc EXCEPT ![w] = "load_sent"]
    /\ UNCHANGED cfgVars
    /\ UNCHANGED <<retries, stop_evt, frame_queue, sent_bytes, timeUp>>
    /\ UNCHANGED <<cur, attempt, calls, sleeps, r, loaded, added, taken>>
    /\ UNCHANGED prodVars /\ UNCHANGED monVars

\* sent_bytes += r["size_bytes"], first half: read the shared cell
WLoadSent(w) ==
    /\ wpc[w] = "load_sent"
    /\ loaded' = [loaded EXCEPT ![w] = sent_bytes]
    /\ wpc' = [wpc EXCEPT ![w] = "store_sent"]
    /\ UNCHANGED cfgVars
    /\ UNCHANGED <<retries, stop_evt, frame_queue, rows, sent_bytes, timeUp>>
    /\ UNCHANGED <<cur, attempt, calls, sleeps, r, added, taken>>
    /\ UNCHANGED prodVars /\ UNCHANGED monVars

\* the amount a worker adds to sent_bytes for a result
Increment(res) == res.size_bytes

\* sent_bytes += r["size_bytes"], second half: write the sum back; then
\* task_done() and back to the head of the loop
WStoreSent(w) ==
    /\ wpc[w] = "store_sent"
    /\ sent_bytes' = loaded[w] + Increment(r[w])
    /\ added' = added + Increment(r[w])
    /\ cur' = [cur EXCEPT ![w] = NoFrame]
    /\ r' = [r EXCEPT ![w] = NoResult]
    /\ attempt' = [attempt EXCEPT ![w] = 0]
    /\ calls' = [calls EXCEPT ![w] = 0]
    /\ sleeps' = [sleeps EXCEPT ![w] = <<>>]
    /\ loaded' = [loaded EXCEPT ![w] = 0]
    /\ wpc' = [wpc EXCEPT ![w] = "check_stop"]
    /\ UNCHANGED cfgVars
    /\ UNCHANGED <<retries, stop_evt, frame_queue, rows, timeUp, taken>>
    /\ UNCHANGED prodVars /\ UNCHANGED monVars

(* ---- monitor_system ------------------------------------------------------ *)
\* while not stop_evt.is_set()
MonCheck ==
    /\ mpc = "check"
    /\ mpc' = IF stop_evt THEN "done" ELSE "sample"
    /\ UNCHANGED cfgVars
    /\ UNCHANGED <<retries, stop_evt, frame_queue, rows, sent_bytes, timeUp>>
    /\ UNCHANGED <<samplesAfterStop, sampleWhileRunning>>
    /\ UNCHANGED prodVars /\ UNCHANGED workVars

\* read the counters, w.writerow(...), f.flush(); then stop_evt.wait(interval_s),
\* which returns at the timeout or when the event is set
MonSample ==
    /\ mpc = "sample"
    /\ samplesAfterStop' = IF stop_evt THEN samplesAfterStop + 1 ELSE samplesAfterStop
    /\ sampleWhileRunning' = (sampleWhileRunning \/ (stop_evt /\ ~WorkersJoined))
    /\ mpc' = "check"
    /\ UNCHANGED cfgVars
    /\ UNCHANGED <<retries, stop_evt, frame_queue, rows, sent_bytes, timeUp>>
    /\ UNCHANGED prodVars /\ UNCHANGED workVars

(* ---- the specifications -------------------------------------------------- *)
Producer ==
    \/ ProdRead \/ ProdEncode \/ ProdPut \/ ProdAdjust \/ ProdStopCheck
    \/ ProdFinally \/ MainJoinMon \/ MainJoinWorkers \/ MainAggregate

Worker(w) ==
    \/ WCheckStop(w) \/ WCheckEmpty(w) \/ WGet(w) \/ WAttempt(w)
    \/ WAppend(w) \/ WLoadSent(w) \/ WStoreSent(w)

Monitor == MonCheck \/ MonSample

Next ==
    \/ ProdRead \/ ProdEncode \/ ProdPut \/ ProdAdjust \/ ProdStopCheck
    \/ ProdFinally \/ MainJoinMon \/ MainJoinWorkers \/ MainAggregate
    \/ \E w \in Workers :
          \/ WCheckStop(w) \/ WCheckEmpty(w) \/ WGet(w) \/ WAttempt(w)
          \/ WAppend(w) \/ WLoadSent(w) \/ WStoreSent(w)
    \/ MonCheck \/ MonSample
    \/ Tick

Spec == Init /\ [][Next]_vars

\* every thread that can take a step eventually takes one
FairSpec ==
    /\ Init /\ [][Next]_vars
    /\ WF_vars(Producer)
    /\ \A w \in Workers : WF_vars(Worker(w))
    /\ WF_vars(Monitor)

(* ---- the drain phase on its own ------------------------------------------ *)
\* The states in which the producer has left its loop on the time limit and
\* set stop_evt, the monitor has seen the event and ended, and main waits for
\* the workers, while the first `held` workers each hold a frame they dequeued
\* and `queued` further frames wait in the queue; no upload has finished yet.
\* From there only the workers and the end of main run.
DrainFrame(i, sz) == [id |-> i, size |-> sz[i]]

InitDrain ==
    \E held \in 0..K, queued \in 0..QueueSize,
       sz \in [1..(K + QueueSize) -> 1..MaxSize] :
        /\ retries \in 0..MaxDrainRetries
        /\ queue_size = QueueSize
        /\ min_fps = MinFps
        /\ max_fps = MaxFps
        /\ fps = MinFps
        /\ stop_evt = TRUE
        /\ frame_queue = [i \in 1..queued |-> DrainFrame(held + i, sz)]
        /\ rows = <<>>
        /\ sent_bytes = 0
        /\ timeUp = TRUE
        /\ encoded = held + queued
        /\ data = NoFrame
        /\ pc = "join_workers"
        /\ wpc = [w \in Workers |-> IF w <= held THEN "upload" ELSE "check_stop"]
        /\ cur = [w \in Workers |-> IF w <= held THEN DrainFrame(w, sz) ELSE NoFrame]
        /\ attempt = [w \in Workers |-> 0]
        /\ calls = [w \in Workers |-> 0]
        /\ sleeps = [w \in Workers |-> <<>>]
        /\ r = [w \in Workers |-> NoResult]
        /\ loaded = [w \in Workers |-> 0]
        /\ added = 0
        /\ mpc = "done"
        /\ samplesAfterStop = 0
        /\ sampleWhileRunning = FALSE
        /\ accepted = [i \in 1..(held + queued) |-> i]
        /\ taken = [i \in 1..held |-> i]
        /\ stopSets = 1
        /\ rowsAtStop = 0
        /\ exitCause = "time"
        /\ summary = NoSummary

NextDrain ==
    \/ MainJoinWorkers \/ MainAggregate
    \/ \E w \in Workers :
          \/ WCheckStop(w) \/ WCheckEmpty(w) \/ WGet(w) \/ WAttempt(w)
          \/ WAppend(w) \/ WLoadSent(w) \/ WStoreSent(w)

DrainSpec == InitDrain /\ [][NextDrain]_vars

(* ---- the workers on a queue of several frames ------------------------------ *)
\* The states in which the producer has left its loop and set stop_evt with
\* up to MaxFifoQueue frames waiting in a queue of that capacity, the monitor
\* has ended and every worker is at the head of its loop.
InitFifo ==
    \E queued \in 0..MaxFifoQueue :
        /\ retries = 0
        /\ queue_size = MaxFifoQueue
        /\ min_fps = MinFps
        /\ max_fps = MaxFps
        /\ fps = MinFps
        /\ stop_evt = TRUE
        /\ frame_queue = [i \in 1..queued |-> [id |-> i, size |-> 1]]
        /\ rows = <<>>
        /\ sent_bytes = 0
        /\ timeUp = TRUE
        /\ encoded = queued
        /\ data = NoFrame
        /\ pc = "join_workers"
        /\ wpc = [w \in Workers |-> "check_stop"]
        /\ cur = [w \in Workers |-> NoFrame]
        /\ attempt = [w \in Workers |-> 0]
        /\ calls = [w \in Workers |-> 0]
        /\ sleeps = [w \in Workers |-> <<>>]
        /\ r = [w \in Workers |-> NoResult]
        /\ loaded = [w \in Workers |-> 0]
        /\ added = 0
        /\ mpc = "done"
        /\ samplesAfterStop = 0
        /\ sampleWhileRunning = FALSE
        /\ accepted = [i \in 1..queued |-> i]
        /\ taken = <<>>
        /\ stopSets = 1
        /\ rowsAtStop = 0
        /\ exitCause = "time"
        /\ summary = NoSummary

FifoSpec == InitFifo /\ [][NextDrain]_vars

(* ---- one rate adjustment on its own --------------------------------------- *)
\* The states in which the producer has just offered a frame to the queue and
\* is about to adjust fps: worker 1 still uploads frame 1, the other workers
\* wait in get, frames 2..occ+1 are queued; capacity, bounds and fps are any.
InitRate ==
    \E cap \in 1..MaxRateQueue : \E occ \in 0..cap :
        /\ retries = 0
        /\ queue_size = cap
        /\ min_fps \in 1..MaxRateMin
        /\ max_fps \in 1..MaxRateMax
        /\ fps \in 1..MaxRateFps
        /\ stop_evt = FALSE
        /\ frame_queue = [i \in 1..occ |-> [id |-> i + 1, size |-> 1]]
        /\ rows = <<>>
        /\ sent_bytes = 0
        /\ timeUp = FALSE
        /\ encoded = occ + 1
        /\ data = [id |-> occ + 1, size |-> 1]
        /\ pc = "adjust"
        /\ wpc = [w \in Workers |-> IF w = 1 THEN "upload" ELSE "get"]
        /\ cur = [w \in Workers |-> IF w = 1 THEN [id |-> 1, size |-> 1] ELSE NoFrame]
        /\ attempt = [w \in Workers |-> 0]
        /\ calls = [w \in Workers |-> 0]
        /\ sleeps = [w \in Workers |-> <<>>]
        /\ r = [w \in Workers |-> NoResult]
        /\ loaded = [w \in Workers |-> 0]
        /\ added = 0
        /\ mpc = "check"
        /\ samplesAfterStop = 0
        /\ sampleWhileRunning = FALSE
        /\ accepted = [i \in 1..(occ + 1) |-> i]
        /\ taken = <<1>>
        /\ stopSets = 0
        /\ rowsAtStop = 0
        /\ exitCause = "none"
        /\ summary = NoSummary

NextRate == ProdAdjust

RateSpec == InitRate /\ [][NextRate]_vars

(* ---- the summary on its own ------------------------------------------------ *)
\* The logs of up to MaxLogLen results: result i is of frame i, "ok" at the
\* first attempt or "fail" after the only attempt (retries = 0).
Logs ==
    UNION {[1..n -> (1..MaxLogSize) \X {"ok", "fail"}] : n \in 0..MaxLogLen}

LogRows(l) ==
    [i \in 1..Len(l) |-> Result([id |-> i, size |-> l[i][1]],
                                IF l[i][2] = "ok" THEN 0 ELSE 1, l[i][2])]

RECURSIVE Counted(_)
\* sent_bytes after "sent_bytes += r["size_bytes"]" ran once for every row
Counted(s) ==
    IF s = <<>> THEN 0 ELSE Increment(Head(s)) + Counted(Tail(s))

\* The states in which main is about to write the logs and the summary: the
\* producer loop is over, the workers and the monitor have ended, the queue is
\* drained and rows is any log.
InitAgg ==
    \E l \in Logs :
        /\ retries = 0
        /\ queue_size = QueueSize
        /\ min_fps = MinFps
        /\ max_fps = MaxFps
        /\ fps = MinFps
        /\ stop_evt = TRUE
        /\ frame_queue = <<>>
        /\ rows = LogRows(l)
        /\ sent_bytes = Counted(LogRows(l))
        /\ timeUp = TRUE
        /\ encoded = Len(l)
        /\ data = NoFrame
        /\ pc = "aggregate"
        /\ wpc = [w \in Workers |-> "done"]
        /\ cur = [w \in Workers |-> NoFrame]
        /\ attempt = [w \in Workers |-> 0]
        /\ calls = [w \in Workers |-> 0]
        /\ sleeps = [w \in Workers |-> <<>>]
        /\ r = [w \in Workers |-> NoResult]
        /\ loaded = [w \in Workers |-> 0]
        /\ added = Counted(LogRows(l))
        /\ mpc = "done"
        /\ samplesAfterStop = 0
        /\ sampleWhileRunning = TRUE
        /\ accepted = [i \in 1..Len(l) |-> i]
        /\ taken = [i \in 1..Len(l) |-> i]
        /\ stopSets = 1
        /\ rowsAtStop = Len(l)
        /\ exitCause = "time"
        /\ summary = NoSummary

NextAgg == MainAggregate

AggSpec == InitAgg /\ [][NextAgg]_vars

(* ---- the shutdown with frames queued and in flight ------------------------- *)
\* The states in which the time limit has passed and the producer is at the
\* stop conditions of its cycle, stop_evt not yet set: `logged` results are in
\* the log, the first `held` workers each upload a frame they dequeued, and
\* `queued` further frames wait in a queue of capacity MaxOverQueue; the
\* frame just offered found the queue full and was dropped.
InitOver ==
    \E logged \in 0..MaxOverLogged, held \in 0..K, queued \in 0..MaxOverQueue :
        /\ retries = 0
        /\ queue_size = MaxOverQueue
        /\ min_fps = MinFps
        /\ max_fps = MaxFps
        /\ fps = MinFps
        /\ stop_evt = FALSE
        /\ frame_queue = [i \in 1..queued |-> [id |-> logged + held + i, size |-> 1]]
        /\ rows = [i \in 1..logged |-> Result([id |-> i, size |-> 1], 0, "ok")]
        /\ sent_bytes = logged
        /\ timeUp = TRUE
        /\ encoded = logged + held + queued + 1
        /\ data = [id |-> logged + held + queued + 1, size |-> 1]
        /\ pc = "stop_check"
        /\ wpc = [w \in Workers |-> IF w <= held THEN "upload" ELSE "check_stop"]
        /\ cur = [w \in Workers |-> IF w <= held THEN [id |-> logged + w, size |-> 1]
                                    ELSE NoFrame]
        /\ attempt = [w \in Workers |-> 0]
        /\ calls = [w \in Workers |-> 0]
        /\ sleeps = [w \in Workers |-> <<>>]
        /\ r = [w \in Workers |-> NoResult]
        /\ loaded = [w \in Workers |-> 0]
        /\ added = logged
        /\ mpc = "check"
        /\ samplesAfterStop = 0
        /\ sampleWhileRunning = FALSE
        /\ accepted = [i \in 1..(logged + held + queued) |-> i]
        /\ taken = [i \in 1..(logged + held) |-> i]
        /\ stopSets = 0
        /\ rowsAtStop = 0
        /\ exitCause = "none"
        /\ summary = NoSummary

NextOver ==
    \/ ProdStopCheck \/ ProdFinally \/ MainJoinMon \/ MainJoinWorkers
    \/ MainAggregate
    \/ \E w \in Workers : Worker(w)
    \/ Monitor

OverSpec == InitOver /\ [][NextOver]_vars

(* ---- properties ------------------------------------------------------------ *)
Range(s) == {s[i] : i \in 1..Len(s)}
RowsOf(id) == {i \in 1..Len(rows) : rows[i].id = id}
\* worker w holds frame id and has not appended its result yet
Uploading(w, id) == cur[w].id = id /\ wpc[w] \in {"upload", "append"}
Finished == pc \in {"aggregate", "done"}

\* C1: every frame a worker dequeued has exactly one result in the log once
\* its upload attempt sequence is over (none while the worker still works on
\* it, never two), whether the upload succeeded or failed; and every result
\* in the log belongs to a dequeued frame.
C1_ExactlyOneResult ==
    /\ \A id \in Range(taken) :
          Cardinality(RowsOf(id)) =
             IF \E w \in Workers : Uploading(w, id) THEN 0 ELSE 1
    /\ \A i \in 1..Len(rows) : rows[i].id \in Range(taken)
    /\ Finished => Len(rows) = Len(taken)

C1_Witness ==
    /\ pc = "done"
    /\ Len(rows) > 1
    /\ \E i, j \in 1..Len(rows) : rows[i].status = "ok" /\ rows[j].status = "fail"

\* in every state: one stop_evt.set() at most, after the loop; all accepted
\* frames logged when the summary is computed
C2_DrainState ==
    /\ stopSets <= 1
    /\ stop_evt => ~InLoop
    /\ Finished => \A id \in Range(accepted) : RowsOf(id) # {}

\* in every step: no enqueue after the event; a worker ends only on "set and empty"
C2_DrainStep ==
    /\ stop_evt => accepted' = accepted
    /\ \A w \in Workers :
          (wpc[w] # "done" /\ wpc'[w] = "done") => (stop_evt /\ frame_queue = <<>>)

\* C2: the stop event is set at most once and only after the producer left
\* its loop; once it is set nothing is enqueued; a worker ends only in a state
\* where the event is set and the queue is empty; and when the summary is
\* computed every frame the queue accepted has its result in the log.
C2_DrainToCompletion == [](C2_DrainState) /\ [][C2_DrainStep]_vars

C2_Witness ==
    /\ pc = "done"
    /\ exitCause \in {"time", "size"}
    /\ Len(accepted) > 1
    /\ Len(rows) = Len(accepted)

\* C3: the occupancy of the frame queue is always between 0 and queue_size.
C3_QueueBounded == 0 <= Len(frame_queue) /\ Len(frame_queue) <= queue_size

\* a frame was offered to the full queue and dropped
C3_Witness ==
    /\ pc = "adjust"
    /\ Len(frame_queue) = queue_size
    /\ data.id \notin Range(accepted)

\* C4: the target rate always lies between min_fps and max_fps, from
\* init_fps on and after every rate adjustment.
C4_RateInvariant == min_fps <= fps /\ fps <= max_fps

\* C5: the retries field of every result in the log is at most the configured
\* number of retries.
C5_RetriesBounded == \A i \in 1..Len(rows) : rows[i].retries <= retries

\* the sleep after the k-th failed call: 2, 4, 8, then 10
ExpectedSleep(k) == CASE k = 1 -> 2 [] k = 2 -> 4 [] k = 3 -> 8 [] OTHER -> 10

\* C6: a result with status "fail" comes after exactly retries + 1 calls of
\* the upload interface, with sleeps of 2, 4, 8, 10, 10, ... seconds after the
\* first retries failed calls and none after the last; and no frame a worker
\* dequeued is in the queue again.

C6_FailSequence ==
    /\ \A w \in Workers :
          (wpc[w] = "append" /\ r[w].status = "fail") =>
             /\ calls[w] = retries + 1
             /\ sleeps[w] = [k \in 1..retries |-> ExpectedSleep(k)]
    /\ \A i \in 1..Len(frame_queue) : frame_queue[i].id \notin Range(taken)

C6_Witness ==
    \E w \in Workers :
        /\ wpc[w] = "append"
        /\ r[w].status = "fail"
        /\ Len(sleeps[w]) > 3
        /\ sleeps[w][Len(sleeps[w])] = 10

\* C7: the byte counter holds nothing but sizes of results with status "ok":
\* it never exceeds the sum of size_bytes over the "ok" results in the log.
C7_OnlyOkCounted == sent_bytes <= SumOk(rows)

\* C8: once all workers have ended, the byte counter equals the sum of the
\* amounts the workers added to it.
C8_NoLostIncrement == WorkersJoined => sent_bytes = added

\* C9: when the pipeline has shut down, the monitor has written exactly one
\* sample after the stop event was set, and wrote it after all workers ended.
C9_FinalSample ==
    (pc = "done" /\ mpc = "done") => (samplesAfterStop = 1 /\ ~sampleWhileRunning)

\* C10: once a stop criterion holds or the capture has failed, the producer,
\* the workers and the monitor eventually end and the summary is computed.
C10_Terminates ==
    (StopCriterion \/ exitCause = "capture")
        ~> (pc = "done" /\ WorkersJoined /\ mpc = "done")

\* one producer step from "adjust": fps goes down by one above 80% occupancy
\* if it is above min_fps, else up by one below 20% if it is below max_fps,
\* else it stays; with the two scenarios of the specification
C11_Step ==
    (pc = "adjust" /\ pc' = "stop_check") =>
        LET occ == Len(frame_queue) IN
        /\ fps' = IF 5 * occ > 4 * queue_size /\ fps > min_fps THEN fps - 1
                  ELSE IF 5 * occ < queue_size /\ fps < max_fps THEN fps + 1
                  ELSE fps
        /\ (queue_size = 5 /\ occ = 5 /\ fps = 10 /\ min_fps = 1) => fps' = 9
        /\ (queue_size = 10 /\ occ = 1 /\ fps = 5 /\ max_fps = 30) => fps' = 6

\* C11: one rate-controller step decreases fps by exactly 1 when occupancy is
\* above 80% of the capacity and fps is above min_fps, else increases it by
\* exactly 1 when occupancy is below 20% and fps is below max_fps, and else
\* leaves it unchanged.
C11_RateStep == [][C11_Step]_vars

\* after the step of the first scenario: capacity 5, occupancy 5, fps 10 -> 9
C11_Witness ==
    /\ pc = "stop_check"
    /\ queue_size = 5
    /\ Len(frame_queue) = 5
    /\ min_fps = 1
    /\ fps = 9

\* C12: the stop criteria are evaluated in every producer cycle that captured
\* a frame, also in one whose encode fails: a cycle that captured a frame
\* while a stop criterion holds is not followed by another capture.
C12_StopEvaluatedEveryCycle ==
    [][(pc = "encode" /\ StopCriterion) => pc' # "read"]_vars

\* C13: capture failure is the only error that stops the pipeline: the
\* shutdown signal is set only after a capture failure, after the time limit,
\* or after the successfully uploaded bytes passed the size limit; uploads
\* whose retries are exhausted have no part in it.
C13_OnlyCaptureFatal ==
    stop_evt => \/ exitCause = "capture"
                \/ exitCause = "time"
                \/ SumOk(rows) > MaxMb

\* the frames rejected by a full queue so far
DroppedIds ==
    {i \in 1..encoded : /\ \A j \in 1..Len(accepted) : accepted[j] # i
                        /\ ~(pc = "put" /\ data.id = i)}

\* C14: a frame dropped on a full queue is never dequeued by a worker and
\* never appears in the result log; the log never has more results than the
\* queue accepted frames.
C14_DroppedNeverLogged ==
    /\ \A i \in DroppedIds :
          /\ \A j \in 1..Len(taken) : taken[j] # i
          /\ \A w \in Workers : cur[w].id # i /\ r[w].id # i
          /\ \A j \in 1..Len(rows) : rows[j].id # i
          /\ \A j \in 1..Len(frame_queue) : frame_queue[j].id # i
    /\ Len(rows) <= Len(accepted)

\* the session ended with a frame dropped and another one logged
C14_Witness == pc = "done" /\ DroppedIds # {} /\ Len(rows) >= 1

\* everything the program holds apart from the producer's position
C15_Data ==
    <<retries, queue_size, min_fps, max_fps, fps, stop_evt, frame_queue, rows,
      sent_bytes, timeUp, encoded, data, wpc, cur, attempt, calls, sleeps, r,
      loaded, added, mpc, samplesAfterStop, sampleWhileRunning, accepted,
      taken, stopSets, rowsAtStop, exitCause, summary>>

\* C15: every frame dropped on a full queue is counted: an enqueue rejected
\* because occupancy equals capacity changes a count the pipeline keeps.
C15_DropsCounted ==
    [][(pc = "put" /\ Len(frame_queue) = queue_size /\ pc' = "adjust")
          => C15_Data' # C15_Data]_vars

\* the indices of the results with status "ok"
OkRows == {i \in 1..Len(rows) : rows[i].status = "ok"}

\* the bytes of the ok results, one element per byte
OkBytes == {<<i, b>> \in (1..Len(rows)) \X (1..MaxLogSize) :
                i \in OkRows /\ b <= rows[i].size_bytes}

\* C16: in the summary frames_total is the number of all results, bytes_total
\* is exactly the sum of size_bytes over the "ok" results, and the
\* percentiles are None exactly when there is no "ok" result.
C16_Summary ==
    pc = "done" =>
        /\ summary.frames_total = Len(rows)
        /\ summary.bytes_total = Cardinality(OkBytes)
        /\ (summary.latency = "None") <=> (OkRows = {})
        /\ (summary.latency = "value") <=> (OkRows # {})

\* a summary over a log with ok and fail results
C16_Witness ==
    /\ pc = "done"
    /\ OkRows # {}
    /\ Len(rows) > Cardinality(OkRows)
    /\ summary.frames_total = MaxLogLen
    /\ summary.bytes_total < Counted(rows)

\* the producer's put on a full queue: the queue and the frames accepted stay
\* as they are and the producer goes on to the rate adjustment, and from
\* there to the stop check, with the offered frame still in hand
C17_Step ==
    /\ (pc = "put" /\ Len(frame_queue) = queue_size /\ pc' # pc) =>
          /\ frame_queue' = frame_queue
          /\ accepted' = accepted
          /\ pc' = "adjust"
          /\ data' = data
    /\ (pc = "adjust" /\ pc' # pc) =>
          /\ pc' = "stop_check"
          /\ data' = data
          /\ stop_evt' = stop_evt

\* C17: an enqueue on a full queue never blocks the producer and leaves the
\* queue's contents and order unchanged: the offered frame is discarded and
\* the producer proceeds in the same cycle to the rate adjustment and the
\* stop check.
C17_FullEnqueue ==
    /\ [](pc = "put" => ENABLED ProdPut)
    /\ [][C17_Step]_vars

\* the producer reached the stop check of a cycle whose frame was dropped
C17_Witness ==
    /\ pc = "stop_check"
    /\ data # NoFrame
    /\ data.id \in DroppedIds
    /\ Len(frame_queue) = queue_size

\* C18: each accepted frame is handed to at most one worker, and frames leave
\* the queue in the order they were enqueued: the frames taken are a prefix
\* of the frames accepted, the queue holds the rest in order, no two workers
\* hold the same frame and no frame has two results.
C18_AtMostOnceFifo ==
    /\ Len(taken) <= Len(accepted)
    /\ \A i \in 1..Len(taken) : taken[i] = accepted[i]
    /\ Len(frame_queue) = Len(accepted) - Len(taken)
    /\ \A i \in 1..Len(frame_queue) : frame_queue[i].id = accepted[Len(taken) + i]
    /\ \A v, w \in Workers : (v # w /\ cur[v] # NoFrame) => cur[v].id # cur[w].id
    /\ \A i, j \in 1..Len(rows) : i # j => rows[i].id # rows[j].id

\* two workers took frames 1 and 2 and the result of frame 2 was logged first
C18_Witness ==
    /\ Len(rows) >= 2
    /\ rows[1].id > rows[2].id
    /\ Len(taken) >= 2

\* once aggregation has started the log and the byte counter stay as they are
C19_Step == Finished => (rows' = rows /\ sent_bytes' = sent_bytes)

\* C19: the aggregator (logs and summary) starts only after the producer loop
\* has exited and all K workers have terminated; from then on no result is
\* appended to the log and the byte counter does not change.
C19_AggregateAfterJoin ==
    /\ [](Finished => (~InLoop /\ stop_evt /\ WorkersJoined))
    /\ [][C19_Step]_vars

\* aggregation is about to run over a log with results
C19_Witness == pc = "aggregate" /\ Len(rows) > 0 /\ sent_bytes > 0

\* stop_evt changes only in the producer's finally block, and only to set;
\* every way out of the producer loop leads there; once it is set it stays
\* set, nothing is enqueued and the queue does not grow
C20_Step ==
    /\ (stop_evt' # stop_evt) => (pc = "finally" /\ pc' = "join_mon" /\ stop_evt')
    /\ (InLoop /\ pc' # pc /\ ~InLoop') => pc' = "finally"
    /\ (pc = "finally" /\ pc' # pc) => stop_evt'
    /\ stop_evt => /\ stop_evt'
                   /\ accepted' = accepted
                   /\ Len(frame_queue') <= Len(frame_queue)

\* C20: the shutdown signal is set only by the producer side, on every exit
\* path of its loop (time limit, size limit, capture failure), never by a
\* worker or the monitor; once set it is never cleared and no frame is
\* enqueued, so the occupancy does not increase and a worker that ended on
\* "signal set and queue empty" leaves no frame behind.
C20_ShutdownSignal ==
    /\ [][C20_Step]_vars
    /\ []((~InLoop /\ pc # "finally") =>
             (stop_evt /\ exitCause \in {"time", "size", "capture"}))
    /\ [](stop_evt <=> stopSets = 1)
    /\ [](\A w \in Workers : wpc[w] = "done" => (stop_evt /\ frame_queue = <<>>))

\* the producer left on the size limit, set the signal, and the workers ended
\* after draining the queue
C20_Witness ==
    /\ stop_evt
    /\ exitCause = "size"
    /\ WorkersJoined
    /\ frame_queue = <<>>
    /\ Len(rows) = Len(accepted)

\* C21: after the shutdown signal is set at most capacity + K further results
\* are appended to the log: the frames still queued and one frame in flight
\* per worker.
C21_BoundedOvershoot ==
    stop_evt => /\ rowsAtStop <= Len(rows)
                /\ Len(rows) - rowsAtStop <= queue_size + K

\* the signal was set with the queue full and every worker uploading, and the
\* session ended with capacity + K results appended after it
C21_Witness ==
    /\ pc = "done"
    /\ Len(rows) - rowsAtStop = queue_size + K

====
